---------------------------- MODULE Spec2Model ----------------------------
(***************************************************************************)
(* The voice pipeline of voice-chatbot/src/Component/voiceConnection.jsx:  *)
(* the recording session (startRecording / stopRecording), the per-frame   *)
(* segmenter (processor.onaudioprocess), the resample / encode / merge     *)
(* helpers and the "bot_reply" playback handler; and the recording         *)
(* session of voice-chatbot/src/Component/testVoice.jsx, the component     *)
(* that sends its utterances base64-encoded as "audio_chunk".              *)
(*                                                                         *)
(* Representation.  A sample x of a captured frame is the integer          *)
(* x * Scale, so the samples of a frame are the multiples of 1/Scale, all  *)
(* exact in Float32.  A resampled sample is a Float32 value m * 2^e, the   *)
(* double sum / count rounded on its store into the Float32Array.  A ref   *)
(* holding null holds 0: object ids start at 1, Date.now() is positive,    *)
(* and the code reads its refs only through !x, x && ..., and              *)
(* Date.now() - x, none of which tells null from 0.                        *)
(***************************************************************************)
EXTENDS Integers, Sequences, FiniteSets

\* ---------------------------------------------------------------- constants

SILENCE_MS == 800
TARGET_SAMPLE_RATE == 16000
\* RMS_THRESHOLD = 0.01 = 1 / RMS_THRESHOLD_INV
RMS_THRESHOLD_INV == 100
\* 0x8000 and 0x7fff, the two scale factors of floatToPCM16
NEG_SCALE == 32768
POS_SCALE == 32767
\* testVoice.jsx: silenceThreshold = 0.01 = 1 / silenceThresholdInv
silenceThresholdInv == 100
\* testVoice.jsx: silenceDuration, ms
silenceDuration == 1000
\* testVoice.jsx: 0x7fff, the scale factor of its mergeInt16
TV_SCALE == 32767

\* Fixed-point scale of a Float32 sample of a captured frame: the sample 1.0
\* is Scale = 2^ScaleBits.
ScaleBits == 7
Scale == 2 ^ ScaleBits

\* ------------------------------------------------------------------- bounds

\* startRecording() calls that get past the isRecording guard
MaxStarts == 2
\* voiced frames captured over a behaviour
MaxChunks == 2
\* clock advances over a behaviour
MaxTicks == 2
\* "bot_reply" messages delivered over a behaviour
MaxReplies == 2
\* samples of an input of floatToPCM16 taken on its own
MaxSamples == 2
\* samples per frame (FRAME_SIZE in the code, 4096)
FrameLen == 3

\* The clock advances by one of these (ms): an elapsed time of exactly
\* SILENCE_MS, or of one more.  Frames may also follow one another within
\* the same millisecond.
TickSteps == {800, 801}
LongestTick == CHOOSE m \in TickSteps : \A d \in TickSteps : d <= m
\* Date.now() when the component is mounted
StartTime == 1000 * 1000
\* The texts of the "bot_reply" messages
BotTexts == {"hello"}

\* The sample rates a new AudioContext may report.
SampleRates == {16000, 48000}

\* A frame of FrameLen samples, all equal to v.
ConstFrame(v) == [i \in 1..FrameLen |-> v]
\* A frame alternating +1.0, -1.0, +1.0, ...
AltFrame == [i \in 1..FrameLen |-> IF i % 2 = 1 THEN Scale ELSE 0 - Scale]
\* The frames the capture device delivers: near silence (1/128, RMS below
\* the threshold), digital silence, full scale, and an alternating full
\* scale signal, loud but of mean near 0.
FrameInputs == {ConstFrame(0), ConstFrame(1), ConstFrame(Scale), AltFrame}

\* ------------------------------------------------------------------ helpers

RECURSIVE SumSeq(_)
SumSeq(s) == IF s = <<>> THEN 0 ELSE Head(s) + SumSeq(Tail(s))

\* computeRMS: the mean of the squares, kept as the pair (sum of squares,
\* n); the root is taken by RmsAbove, which compares squares.
computeRMS(buf) ==
    [sumsq |-> SumSeq([i \in 1..Len(buf) |-> buf[i] * buf[i]]), n |-> Len(buf)]

\* rms > RMS_THRESHOLD.  Of an empty buffer the RMS is NaN, above nothing.
RmsAbove(rms) ==
    /\ rms.n > 0
    /\ rms.sumsq * RMS_THRESHOLD_INV * RMS_THRESHOLD_INV > rms.n * Scale * Scale

\* buffer[j] || 0 for a 0-based index j
AtOrZero(buffer, j) == IF j < Len(buffer) THEN buffer[j + 1] ELSE 0

\* ---- the double arithmetic of downsampleFloat (lines 136, 137, 142, 143)
\*
\* srcRate / outRate, buffer.length / ratio and i * ratio are operations on
\* IEEE 754 doubles: each result is the exact one rounded to 53 significant
\* bits, to nearest, ties to even.  The numbers involved pass 2^31, so a
\* natural number is kept as the sequence of its digits in base LimbBase,
\* lowest first, and a double as [m, e], the value m * 2^e.

\* A digit has LimbBits bits, so that the product of two digits fits an integer.
LimbBits == 15
LimbBase == 2 ^ LimbBits
\* The significand of a double has MantissaBits bits.
MantissaBits == 53

\* The digits of the natural number n.
RECURSIVE Big(_)
Big(n) == IF n = 0 THEN <<>> ELSE <<n % LimbBase>> \o Big(n \div LimbBase)

\* The natural number of the digits a.
RECURSIVE BigToInt(_)
BigToInt(a) == IF a = <<>> THEN 0 ELSE Head(a) + LimbBase * BigToInt(Tail(a))

\* a * d + c for a number d <= LimbBase and a carry c below LimbBase.
RECURSIVE BigTimesPlus(_, _, _)
BigTimesPlus(a, d, c) ==
    IF a = <<>>
    THEN Big(c)
    ELSE LET t == Head(a) * d + c
         IN  <<t % LimbBase>> \o BigTimesPlus(Tail(a), d, t \div LimbBase)

\* a + b + c for a carry c of 0 or 1.
RECURSIVE BigAddCarry(_, _, _)
BigAddCarry(a, b, c) ==
    IF a = <<>> /\ b = <<>>
    THEN Big(c)
    ELSE LET x == IF a = <<>> THEN 0 ELSE Head(a)
             y == IF b = <<>> THEN 0 ELSE Head(b)
             t == x + y + c
         IN  <<t % LimbBase>>
             \o BigAddCarry(IF a = <<>> THEN a ELSE Tail(a),
                            IF b = <<>> THEN b ELSE Tail(b), t \div LimbBase)

\* a - b - c for a >= b + c and a borrow c of 0 or 1.
RECURSIVE BigSubBorrow(_, _, _)
BigSubBorrow(a, b, c) ==
    IF a = <<>>
    THEN <<>>
    ELSE LET y == IF b = <<>> THEN 0 ELSE Head(b)
             t == Head(a) - y - c
         IN  <<t % LimbBase>>
             \o BigSubBorrow(Tail(a), IF b = <<>> THEN b ELSE Tail(b),
                             IF t < 0 THEN 1 ELSE 0)

BigSub(a, b) == BigSubBorrow(a, b, 0)

\* a * b
RECURSIVE BigMul(_, _)
BigMul(a, b) ==
    IF b = <<>> THEN <<>>
    ELSE IF Tail(b) = <<>> THEN BigTimesPlus(a, Head(b), 0)
    ELSE BigAddCarry(BigTimesPlus(a, Head(b), 0),
                     <<0>> \o BigMul(a, Tail(b)), 0)

\* a * 2^n
BigShl(a, n) ==
    IF n = 0
    THEN a
    ELSE [i \in 1..(n \div LimbBits) |-> 0]
         \o BigTimesPlus(a, 2 ^ (n % LimbBits), 0)

\* floor(a / 2^n)
BigShr(a, n) ==
    LET q == n \div LimbBits
        r == n % LimbBits
        At(j) == IF j <= Len(a) THEN a[j] ELSE 0
    IN  [j \in 1..(Len(a) - q) |->
            (At(j + q) \div 2 ^ r) + (At(j + q + 1) % 2 ^ r) * 2 ^ (LimbBits - r)]

\* a <= b, decided at the highest digit, from digit i down, where they differ.
RECURSIVE BigLeqFrom(_, _, _)
BigLeqFrom(a, b, i) ==
    IF i = 0
    THEN TRUE
    ELSE LET x == IF i <= Len(a) THEN a[i] ELSE 0
             y == IF i <= Len(b) THEN b[i] ELSE 0
         IN  IF x = y THEN BigLeqFrom(a, b, i - 1) ELSE x < y

BigLeq(a, b) ==
    BigLeqFrom(a, b, IF Len(a) > Len(b) THEN Len(a) ELSE Len(b))

\* The exponent of the quotient a / b of two positive integers: the e with
\* 2^e <= a / b < 2^(e+1).
RECURSIVE QuotientExponent(_, _)
QuotientExponent(a, b) ==
    IF a < b THEN QuotientExponent(2 * a, b) - 1
    ELSE IF a \div 2 >= b THEN QuotientExponent(a, 2 * b) + 1
    ELSE 0

\* The bits a step of long division by b yields: w or fewer, as many as
\* keep a remainder times 2^bits below 2^31.
RECURSIVE StepBitsFrom(_, _)
StepBitsFrom(b, w) ==
    IF w = 1 \/ b <= 2 ^ (31 - w) THEN w ELSE StepBitsFrom(b, w - 1)

StepBits(b) == StepBitsFrom(b, LimbBits)

\* Up to n more bits of the binary expansion of a quotient of divisor b, by
\* long division from the remainder r; acc holds the bits found so far.  The
\* division ends at remainder 0, the n bits left being 0.
RECURSIVE QuotientBits(_, _, _, _)
QuotientBits(r, b, n, acc) ==
    IF n = 0 \/ r = 0
    THEN [m |-> acc, r |-> r, n |-> n]
    ELSE LET w == IF n < StepBits(b) THEN n ELSE StepBits(b)
             t == r * 2 ^ w
         IN  QuotientBits(t % b, b, n - w, BigTimesPlus(acc, 2 ^ w, t \div b))

\* The double a / b of two positive integers (line 136): the first
\* MantissaBits bits of the quotient, rounded to nearest on the remainder,
\* a tie going to the even significand.
DoubleQuotient(a, b) ==
    LET e   == QuotientExponent(a, b)
        num == IF e < 0 THEN a * 2 ^ (0 - e) ELSE a
        den == IF e > 0 THEN b * 2 ^ e ELSE b
        q   == QuotientBits(num - den, den, MantissaBits - 1, <<1>>)
        up  == \/ 2 * q.r > den
               \/ 2 * q.r = den /\ Head(q.m) % 2 = 1
    IN  [m |-> IF up THEN BigAddCarry(q.m, <<>>, 1) ELSE q.m,
         e |-> e - (MantissaBits - 1 - q.n)]

\* The exponent of the doubles just below the integer k >= 1: the largest e
\* with 2^e < k.
RECURSIVE ExponentBelow(_)
ExponentBelow(k) == IF k <= 1 THEN 0 - 1 ELSE 1 + ExponentBelow((k + 1) \div 2)

\* Rounding towards an integer k >= 1.  k is a double of even significand,
\* HalfUlp(k) = 2^(ExponentBelow(k) - MantissaBits) is half its distance to
\* the double just below it, and a real x < k rounds to a double >= k
\* exactly when k - x <= HalfUlp(k).  Math.floor of the double of x is then
\* the largest integer k with x >= k or k - x <= HalfUlp(k).
HalfUlpExponent(k) == ExponentBelow(k) - MantissaBits

\* Math.floor(i * ratio) (lines 142, 143): the floor f of the exact product
\* x, or f + 1 when x rounds to it.  In units of 2^ratio.e the gap to f + 1
\* is a whole number, at most the half ulp only if that is one unit or more.
FloorProduct(i, ratio) ==
    LET x    == BigMul(ratio.m, Big(i))
        f    == BigToInt(IF ratio.e >= 0
                         THEN BigShl(x, ratio.e)
                         ELSE BigShr(x, 0 - ratio.e))
        d    == HalfUlpExponent(f + 1) - ratio.e
        next == BigShl(Big(f + 1), 0 - ratio.e)
    IN  IF /\ ratio.e < 0
           /\ d >= 0
           /\ BigLeq(BigSub(next, x), BigShl(<<1>>, d))
        THEN f + 1
        ELSE f

\* The double length / ratio is at least the integer k >= 1 (line 137):
\* length / ratio >= k - HalfUlp(k), multiplied by ratio and taken in units
\* of 2^u, the unit of ratio or 1.
QuotientAtLeast(length, ratio, k) ==
    LET u      == IF ratio.e < 0 THEN ratio.e ELSE 0
        kRatio == BigShl(BigMul(ratio.m, Big(k)), ratio.e - u)
        len    == BigShl(Big(length), 0 - u)
    IN  \/ BigLeq(kRatio, len)
        \/ BigLeq(BigShl(BigSub(kRatio, len), 0 - HalfUlpExponent(k)),
                  BigShl(ratio.m, ratio.e - u))

\* The largest integer from k down that the double length / ratio reaches.
RECURSIVE FloorQuotientFrom(_, _, _)
FloorQuotientFrom(length, ratio, k) ==
    IF k = 0 \/ QuotientAtLeast(length, ratio, k)
    THEN k
    ELSE FloorQuotientFrom(length, ratio, k - 1)

\* ---- Float32 values (lines 138, 151, 160, 161)
\*
\* A sample of a captured frame is a whole number of 1/Scale, kept as that
\* number.  The samples downsampleFloat returns are not: out is a
\* Float32Array, and the store of line 151 rounds the double sum / count to
\* the 24 significant bits of a Float32.  A Float32 value is kept as
\* [nan, m, e]: the value m * 2^e of an integer m, or NaN.

Float32(m, e) == [nan |-> FALSE, m |-> m, e |-> e]
NaN == [nan |-> TRUE, m |-> 0, e |-> 0]

\* The significand of a Float32 has Float32Bits bits.
Float32Bits == 24

Abs(n) == IF n < 0 THEN 0 - n ELSE n

\* The bits of the natural number n.
RECURSIVE BitLength(_)
BitLength(n) == IF n = 0 THEN 0 ELSE 1 + BitLength(n \div 2)

\* The bits of the digits a, the highest of them not 0.
BigBitLength(a) ==
    IF a = <<>> THEN 0 ELSE (Len(a) - 1) * LimbBits + BitLength(a[Len(a)])

\* The store of a double into a Float32Array: the double d = [m, e], negated
\* if neg, rounded to Float32Bits significant bits, to nearest, a tie going
\* to the even significand.
StoreFloat32(d, neg) ==
    LET shift == BigBitLength(d.m) - Float32Bits
        q     == BigToInt(BigShr(d.m, shift))
        rest  == BigSub(d.m, BigShl(Big(q), shift))
        half  == BigShl(<<1>>, shift - 1)
        up    == IF BigLeq(rest, half)
                 THEN BigLeq(half, rest) /\ q % 2 = 1
                 ELSE TRUE
        m     == IF shift <= 0 THEN BigToInt(d.m)
                 ELSE IF up THEN q + 1 ELSE q
    IN  Float32(IF neg THEN 0 - m ELSE m,
                IF shift <= 0 THEN d.e ELSE d.e + shift)

\* out[i] = sum / count (line 151).  sum, a sum of samples of the frame, is
\* exact as a double, a whole number of 1/Scale; the quotient is a double,
\* which the store rounds to a Float32.
Mean(sum, count) ==
    IF sum = 0
    THEN Float32(0, 0)
    ELSE LET d == DoubleQuotient(Abs(sum), count)
         IN  StoreFloat32([m |-> d.m, e |-> d.e - ScaleBits], sum < 0)

\* downsampleFloat: the copy at equal rates, else output sample i is the
\* mean of the input samples floor(i*ratio) .. floor((i+1)*ratio) - 1,
\* stored as a Float32.  ratio is the double srcRate / outRate, and each
\* floor is taken of a double.  The search for the floor of length / ratio
\* starts one above the floor of the exact quotient, which the double
\* cannot pass.
downsampleFloat(buffer, srcRate, outRate) ==
    IF outRate = srcRate
    THEN [i \in 1..Len(buffer) |-> Float32(buffer[i], 0 - ScaleBits)]
    ELSE LET ratio == DoubleQuotient(srcRate, outRate)
             outLength ==
                 FloorQuotientFrom(Len(buffer), ratio,
                                   (Len(buffer) * outRate) \div srcRate + 1)
             Out(i) ==
                 LET start == FloorProduct(i, ratio)
                     end   == FloorProduct(i + 1, ratio)
                     last  == IF end < Len(buffer) THEN end ELSE Len(buffer)
                     count == IF last > start THEN last - start ELSE 0
                     sum   == SumSeq([k \in 1..count |-> buffer[start + k]])
                 IN  IF count > 0
                     THEN Mean(sum, count)
                     ELSE Float32(AtOrZero(buffer, start), 0 - ScaleBits)
         IN  [i \in 1..outLength |-> Out(i - 1)]

\* The conversion of a number to Int16 on a store into an Int16Array.
ToInt16(v) ==
    LET m == v % 65536
    IN  IF m >= 32768 THEN m - 65536 ELSE m

\* |s| * scale truncated to a whole number, for a Float32 s and a scale of
\* at most LimbBase.  The product is exact as a double: 24 and 16 bits.
ScaledMagnitude(s, scale) ==
    LET x == BigTimesPlus(Big(Abs(s.m)), scale, 0)
    IN  BigToInt(IF s.e >= 0 THEN BigShl(x, s.e) ELSE BigShr(x, 0 - s.e))

\* out[i] = s < 0 ? s * 0x8000 : s * 0x7fff (line 161): the store truncates
\* towards 0.
EncodeScaled(s) ==
    IF s.m < 0
    THEN ToInt16(0 - ScaledMagnitude(s, NEG_SCALE))
    ELSE ToInt16(ScaledMagnitude(s, POS_SCALE))

\* EncodeSample without the clamp to [-1, 1].
EncodeSampleUnclamped(f) == IF f.nan THEN 0 ELSE EncodeScaled(f)

\* |f| >= 1 for a Float32 f
MagnitudeAtLeastOne(f) ==
    /\ f.m # 0
    /\ f.e >= 0 \/ BitLength(Abs(f.m)) > 0 - f.e

\* Math.max(-1, Math.min(1, f)) (line 160) for a Float32 f
Clamp(f) ==
    IF MagnitudeAtLeastOne(f)
    THEN Float32(IF f.m < 0 THEN 0 - 1 ELSE 1, 0)
    ELSE f

\* One sample of floatToPCM16: clamp to [-1, 1], scale by 0x8000 below 0 and
\* by 0x7fff otherwise, truncate towards 0 on the store.
\* NaN passes the clamp and is stored as 0.
EncodeSample(f) == IF f.nan THEN 0 ELSE EncodeScaled(Clamp(f))

floatToPCM16(float32) == [i \in DOMAIN float32 |-> EncodeSample(float32[i])]

\* mergeInt16 laying each chunk before the ones merged so far.
RECURSIVE mergeInt16Reversed(_)
mergeInt16Reversed(chunks) ==
    IF chunks = <<>> THEN <<>>
    ELSE mergeInt16Reversed(Tail(chunks)) \o Head(chunks)

\* mergeInt16: the chunks laid end to end, in order.
RECURSIVE mergeInt16(_)
mergeInt16(chunks) ==
    IF chunks = <<>> THEN <<>> ELSE Head(chunks) \o mergeInt16(Tail(chunks))

\* -------------------------------------------------------------------- state

VARIABLES
    \* React state and refs of the component
    isRecording,       \* useState(false): the isRecording of the last render,
                       \* which the handlers of that render read
    recordingState,    \* the state setIsRecording has queued for the next
                       \* render
    messages,          \* useState([]): the transcript
    audioContextRef,   \* id of the AudioContext, 0 for null
    sourceRef,         \* id of the MediaStreamAudioSourceNode, 0 for null
    processorRef,      \* id of the ScriptProcessorNode, 0 for null
    bufferRef,         \* the Int16 chunks of the utterance being accumulated
    silenceStartRef,   \* Date.now() at the first silent frame, 0 for null
    speakingRef,       \* the segmenter is Speaking
    \* the browser
    now,               \* Date.now()
    deviceRate,        \* sampleRate of the AudioContexts of this device
    contexts,          \* AudioContext id -> "running" | "closed"
    streams,           \* MediaStream id -> "live" | "stopped"
    sources,           \* source node id -> [ctx, stream]
    processors,        \* processor node id -> [ctx, connected]
    pendingStarts,     \* startRecording() calls awaiting getUserMedia
    startFailed,       \* a startRecording() promise has rejected
    audios,            \* Audio elements made by "bot_reply", in order
    \* the transport, and the record of what was captured
    sent,              \* the "voice_chunk" emissions, in order
    heard,             \* the voiced input frames, in order of arrival
    dropped,           \* the chunks discarded by stopRecording()
    run,               \* the voiced frames captured since a segment was
                       \* last sent or a stop last discarded the buffer
    sinceStop,         \* what has run since the last stopRecording() that
                       \* stopped a session
    frameRanLast,      \* the step taken last was a call of onaudioprocess
    \* the other component of the repository, and the encoder on its own
    tv,                \* the state of the testVoice.jsx component
    enc                \* an input of floatToPCM16 and its output

compVars == <<isRecording, recordingState, messages, audioContextRef, sourceRef, processorRef,
              bufferRef, silenceStartRef, speakingRef>>
segVars == <<bufferRef, silenceStartRef, speakingRef>>
envVars == <<now, deviceRate, contexts, streams, sources, processors,
             pendingStarts, startFailed, audios>>
otherVars == <<tv, enc>>
vars == <<compVars, envVars, sent, heard, dropped, run, sinceStop,
          frameRanLast, otherVars>>

\* testVoice.jsx 7-13: the state and the refs of the component when mounted,
\* with the browser objects it has made, its "audio_chunk" emissions and
\* the record of what it captured.
tvMount ==
    [recording       |-> FALSE,   \* useState(false)
     audioContextRef |-> 0,
     sourceRef       |-> 0,
     processorRef    |-> 0,
     bufferRef       |-> <<>>,    \* the Float32 chunks being accumulated
     contexts        |-> <<>>,    \* AudioContext id -> "running" | "closed"
     sources         |-> <<>>,    \* source node id -> [ctx, connected]
     processors      |-> <<>>,    \* processor id -> [ctx, connected,
                                  \*   silenceStart: the let of line 73]
     pendingStarts   |-> 0,       \* calls awaiting getUserMedia
     sent            |-> <<>>,    \* the "audio_chunk" emissions, in order
     heard           |-> 0,       \* the number of voiced frames captured
     stopped         |-> {},      \* the chunks that were in the buffer at a
                                  \*   call of stopRecording()
     stale           |-> {}]      \* those of them still in the buffer at a
                                  \*   later call of startRecording()

InitComponents ==
    /\ isRecording = FALSE
    /\ recordingState = FALSE
    /\ messages = <<>>
    /\ audioContextRef = 0
    /\ sourceRef = 0
    /\ processorRef = 0
    /\ bufferRef = <<>>
    /\ silenceStartRef = 0
    /\ speakingRef = FALSE
    /\ now = StartTime
    /\ deviceRate \in SampleRates
    /\ contexts = <<>>
    /\ streams = <<>>
    /\ sources = <<>>
    /\ processors = <<>>
    /\ pendingStarts = 0
    /\ startFailed = FALSE
    /\ audios = <<>>
    /\ sent = <<>>
    /\ heard = <<>>
    /\ dropped = {}
    /\ run = <<>>
    /\ sinceStop = "never"
    /\ frameRanLast = FALSE
    /\ tv = tvMount

Init ==
    /\ InitComponents
    /\ enc = [input |-> <<>>, output |-> <<>>, done |-> FALSE]

\* ----------------------------------------------------------- startRecording

\* startRecording 58-63: past the guard, a new AudioContext replaces the one
\* audioContextRef held (which is not closed), and the call awaits
\* getUserMedia.
startRecording ==
    /\ frameRanLast' = FALSE
    /\ IF isRecording
       THEN UNCHANGED <<compVars, envVars, sent, heard, dropped, sinceStop, run>>
       ELSE /\ Len(contexts) < MaxStarts
            /\ contexts' = Append(contexts, "running")
            /\ audioContextRef' = Len(contexts) + 1
            /\ pendingStarts' = pendingStarts + 1
            /\ sinceStop' = IF sinceStop = "stopped" THEN "restarted"
                            ELSE sinceStop
            /\ UNCHANGED <<isRecording, recordingState, messages, sourceRef,
                           processorRef,
                           segVars, now, deviceRate, streams, sources,
                           processors, startFailed, audios, sent, heard,
                           dropped, run>>
    /\ UNCHANGED otherVars

\* startRecording 63-104, getUserMedia having resolved with a new stream: the
\* source and the processor are made on the context audioContextRef holds
\* NOW, wired, and setIsRecording(true) queues the new state: the handlers
\* keep the isRecording of their render until render.  On a closed context
\* createMediaStreamSource throws (InvalidStateError) in some browsers and
\* makes a dead node in others: thrown is either.
getUserMediaResolved(thrown) ==
    /\ frameRanLast' = FALSE
    /\ pendingStarts > 0
    /\ pendingStarts' = pendingStarts - 1
    /\ streams' = Append(streams, "live")
    /\ thrown => contexts[audioContextRef] = "closed"
    /\ IF thrown
       THEN /\ startFailed' = TRUE
            /\ UNCHANGED <<compVars, sources, processors>>
       ELSE /\ sources' = Append(sources, [ctx |-> audioContextRef,
                                           stream |-> Len(streams) + 1])
            /\ sourceRef' = Len(sources) + 1
            /\ processors' = Append(processors, [ctx |-> audioContextRef,
                                                 connected |-> TRUE])
            /\ processorRef' = Len(processors) + 1
            /\ recordingState' = TRUE
            /\ UNCHANGED <<isRecording, messages, audioContextRef, segVars,
                           startFailed>>
    /\ UNCHANGED <<now, deviceRate, contexts, audios, sent, heard, dropped,
                   sinceStop, run, otherVars>>

\* getUserMediaRejected with setIsRecording(true) called before the await.
getUserMediaRejectedMarksRecording ==
    /\ frameRanLast' = FALSE
    /\ pendingStarts > 0
    /\ pendingStarts' = pendingStarts - 1
    /\ startFailed' = TRUE
    /\ recordingState' = TRUE
    /\ UNCHANGED <<isRecording, messages, audioContextRef, sourceRef,
                   processorRef, segVars,
                   now, deviceRate, contexts, streams, sources, processors,
                   audios, sent, heard, dropped, sinceStop, run, otherVars>>

\* startRecording 63, getUserMedia having rejected: the await throws, the
\* promise startRecording returned rejects, nothing after line 63 runs.
getUserMediaRejected ==
    /\ frameRanLast' = FALSE
    /\ pendingStarts > 0
    /\ pendingStarts' = pendingStarts - 1
    /\ startFailed' = TRUE
    /\ UNCHANGED <<compVars, now, deviceRate, contexts, streams, sources,
                   processors, audios, sent, heard, dropped, sinceStop, run,
                   otherVars>>

\* ------------------------------------------------------------ onaudioprocess

\* A ScriptProcessorNode fires onaudioprocess while its context runs and its
\* output is connected.
Live(p) ==
    /\ p \in 1..Len(processors)
    /\ processors[p].connected
    /\ contexts[processors[p].ctx] = "running"

\* the PCM chunks of the buffer, without the capture numbers
Chunks(buffer) == [i \in 1..Len(buffer) |-> buffer[i].pcm]
\* the capture numbers of the buffer's chunks
Ids(buffer) == [i \in 1..Len(buffer) |-> buffer[i].id]

\* 80: rms > RMS_THRESHOLD
IsVoiced(inBuf) == RmsAbove(computeRMS(inBuf))

\* InSpeech without the test of speakingRef: silence is timed while Idle too.
InSpeechAlways == TRUE

\* 85: else if (speakingRef.current)
InSpeech == speakingRef

\* TimerUnset without the test: every silent frame restarts the timer.
TimerUnsetAlways == TRUE

\* 87: if (!silenceStartRef.current)
TimerUnset == silenceStartRef = 0

\* HangoverExpired with >= for >.
HangoverExpiredAtEqual == now - silenceStartRef >= SILENCE_MS

\* 89: Date.now() - silenceStartRef.current > SILENCE_MS
HangoverExpired == now - silenceStartRef > SILENCE_MS

\* VoicedFrame without the push of the chunk.
VoicedFrameNoPush(inBuf, pcm16) ==
    /\ speakingRef' = TRUE
    /\ silenceStartRef' = 0
    /\ bufferRef' = bufferRef
    /\ heard' = Append(heard, inBuf)
    /\ UNCHANGED sent

\* VoicedFrame without the reset of the silence timer.
VoicedFrameKeepsTimer(inBuf, pcm16) ==
    /\ speakingRef' = TRUE
    /\ silenceStartRef' = silenceStartRef
    /\ bufferRef' = Append(bufferRef, [id |-> Len(heard) + 1, pcm |-> pcm16])
    /\ heard' = Append(heard, inBuf)
    /\ UNCHANGED sent

\* 81-84: voice detected
VoicedFrame(inBuf, pcm16) ==
    /\ speakingRef' = TRUE
    /\ silenceStartRef' = 0
    /\ bufferRef' = Append(bufferRef, [id |-> Len(heard) + 1, pcm |-> pcm16])
    /\ heard' = Append(heard, inBuf)
    /\ UNCHANGED sent

\* EndOfUtterance without the reset of the buffer.
EndOfUtteranceKeepsBuffer ==
    /\ sent' = Append(sent, [data |-> mergeInt16(Chunks(bufferRef)),
                             ids  |-> Ids(bufferRef)])
    /\ bufferRef' = bufferRef
    /\ silenceStartRef' = 0
    /\ speakingRef' = FALSE
    /\ UNCHANGED heard

\* EndOfUtterance emitting the merged buffer twice.
EndOfUtteranceSendsTwice ==
    /\ sent' = sent \o <<[data |-> mergeInt16(Chunks(bufferRef)),
                          ids  |-> Ids(bufferRef)],
                         [data |-> mergeInt16(Chunks(bufferRef)),
                          ids  |-> Ids(bufferRef)]>>
    /\ bufferRef' = <<>>
    /\ silenceStartRef' = 0
    /\ speakingRef' = FALSE
    /\ UNCHANGED heard

\* 90-96: end of utterance, one merged buffer is sent and the segmenter reset
EndOfUtterance ==
    /\ sent' = Append(sent, [data |-> mergeInt16(Chunks(bufferRef)),
                             ids  |-> Ids(bufferRef)])
    /\ bufferRef' = <<>>
    /\ silenceStartRef' = 0
    /\ speakingRef' = FALSE
    /\ UNCHANGED heard

\* 86-97: silence during a speech segment
SilentFrame ==
    IF TimerUnset
    THEN /\ silenceStartRef' = now
         /\ UNCHANGED <<bufferRef, speakingRef, sent, heard>>
    ELSE IF HangoverExpired
         THEN EndOfUtterance
         ELSE UNCHANGED <<segVars, sent, heard>>

\* 67-99: the handler of processor p on the frame inBuf
onaudioprocess(p, inBuf) ==
    /\ frameRanLast' = TRUE
    /\ Live(p)
    /\ LET float16k == downsampleFloat(inBuf, deviceRate, TARGET_SAMPLE_RATE)
           pcm16    == floatToPCM16(float16k)
       IN  IF IsVoiced(inBuf)
           THEN /\ Len(heard) < MaxChunks
                /\ VoicedFrame(inBuf, pcm16)
           ELSE IF InSpeech
                THEN SilentFrame
                ELSE UNCHANGED <<segVars, sent, heard>>
    /\ run' = IF IsVoiced(inBuf) THEN Append(run, Len(heard) + 1)
               ELSE IF Len(sent') > Len(sent) THEN <<>> ELSE run
    /\ sinceStop' = IF IsVoiced(inBuf) /\ sinceStop = "restarted"
                    THEN "voiced" ELSE sinceStop
    /\ UNCHANGED <<isRecording, recordingState, messages, audioContextRef,
                   sourceRef, processorRef, envVars, dropped, otherVars>>

\* Date.now() moves on.
Tick(d) ==
    /\ frameRanLast' = FALSE
    /\ (now - StartTime) + d <= MaxTicks * LongestTick
    /\ now' = now + d
    /\ UNCHANGED <<compVars, deviceRate, contexts, streams, sources,
                   processors, pendingStarts, startFailed, audios, sent,
                   heard, dropped, sinceStop, run, otherVars>>

\* ------------------------------------------------------------ stopRecording

\* 110: processorRef.current && processorRef.current.disconnect()
DisconnectProcessor ==
    IF processorRef = 0
    THEN processors
    ELSE [processors EXCEPT ![processorRef].connected = FALSE]

\* 112-114: close the context audioContextRef holds
CloseContext ==
    IF audioContextRef = 0
    THEN contexts
    ELSE [contexts EXCEPT ![audioContextRef] = "closed"]

\* 115-116: stop the tracks of the stream of the source sourceRef holds
StopTracks ==
    IF sourceRef = 0
    THEN streams
    ELSE [streams EXCEPT ![sources[sourceRef].stream] = "stopped"]

\* ResetSegmenter without the reset of the buffer.
ResetSegmenterKeepsBuffer ==
    /\ bufferRef' = bufferRef
    /\ silenceStartRef' = 0
    /\ speakingRef' = FALSE
    /\ dropped' = dropped \cup {bufferRef[i].id : i \in 1..Len(bufferRef)}

\* ResetSegmenter without the reset of the silence timer.
ResetSegmenterKeepsTimer ==
    /\ bufferRef' = <<>>
    /\ silenceStartRef' = silenceStartRef
    /\ speakingRef' = FALSE
    /\ dropped' = dropped \cup {bufferRef[i].id : i \in 1..Len(bufferRef)}

\* 118-120: the segmenter is reset and the partial utterance discarded
ResetSegmenter ==
    /\ bufferRef' = <<>>
    /\ silenceStartRef' = 0
    /\ speakingRef' = FALSE
    /\ dropped' = dropped \cup {bufferRef[i].id : i \in 1..Len(bufferRef)}

\* 107-122: the guard reads the isRecording of the render that made the
\* handler; setIsRecording(false) queues the new state.
stopRecording ==
    /\ frameRanLast' = FALSE
    /\ IF ~isRecording
       THEN UNCHANGED <<compVars, envVars, sent, heard, dropped, sinceStop, run>>
       ELSE /\ processors' = DisconnectProcessor
            /\ contexts' = CloseContext
            /\ streams' = StopTracks
            /\ ResetSegmenter
            /\ recordingState' = FALSE
            /\ run' = <<>>
            /\ sinceStop' = "stopped"
            /\ UNCHANGED <<isRecording, messages, audioContextRef, sourceRef,
                           processorRef,
                           now, deviceRate, sources, pendingStarts,
                           startFailed, audios, sent, heard>>
    /\ UNCHANGED otherVars

\* The component renders again with the state setIsRecording queued: the
\* handlers of the new render (lines 57, 107, 185) read the new isRecording.
render ==
    /\ frameRanLast' = FALSE
    /\ isRecording # recordingState
    /\ isRecording' = recordingState
    /\ UNCHANGED <<recordingState, messages, audioContextRef, sourceRef,
                   processorRef, segVars, envVars, sent, heard, dropped,
                   sinceStop, run, otherVars>>

\* ------------------------------------------------------------------ playback

BotReplies == [bot_text : BotTexts, bot_audio : BOOLEAN, interrupt : BOOLEAN]

\* botReply without the append of the text to the transcript of a message
\* that carries audio.
botReplyAwaitingPlay(msg) ==
    /\ frameRanLast' = FALSE
    /\ Len(messages) < MaxReplies
    /\ IF msg.bot_audio
       THEN /\ audios' = Append(audios, [state |-> "requested"])
            /\ UNCHANGED messages
       ELSE /\ messages' = Append(messages, [from |-> "bot",
                                             text |-> msg.bot_text])
            /\ UNCHANGED audios
    /\ UNCHANGED <<isRecording, recordingState, audioContextRef, sourceRef,
                   processorRef, segVars, now, deviceRate, contexts, streams,
                   sources, processors, pendingStarts, startFailed, sent,
                   heard, dropped, sinceStop, run, otherVars>>

\* 30-43: the text joins the transcript; with audio, a new Audio element is
\* made and play() called, and the handler returns with the promise of
\* play() pending.  No field of the message but bot_text and bot_audio is
\* read, and no earlier element is touched.
botReply(msg) ==
    /\ frameRanLast' = FALSE
    /\ Len(messages) < MaxReplies
    /\ messages' = Append(messages, [from |-> "bot", text |-> msg.bot_text])
    /\ IF msg.bot_audio
       THEN audios' = Append(audios, [state |-> "requested"])
       ELSE UNCHANGED audios
    /\ UNCHANGED <<isRecording, recordingState, audioContextRef, sourceRef,
                   processorRef, segVars, now, deviceRate, contexts, streams,
                   sources, processors, pendingStarts, startFailed, sent,
                   heard, dropped, sinceStop, run, otherVars>>

\* 38: the promise of play() resolves, the element plays.  The code has no
\* callback on it.
playResolved(a) ==
    /\ frameRanLast' = FALSE
    /\ a \in 1..Len(audios)
    /\ audios[a].state = "requested"
    /\ audios' = [audios EXCEPT ![a].state = "playing"]
    /\ UNCHANGED <<compVars, now, deviceRate, contexts, streams, sources,
                   processors, pendingStarts, startFailed, sent, heard,
                   dropped, sinceStop, run, otherVars>>

\* 38-41: the promise of play() rejects, the catch logs a warning.
playRejected(a) ==
    /\ frameRanLast' = FALSE
    /\ a \in 1..Len(audios)
    /\ audios[a].state = "requested"
    /\ audios' = [audios EXCEPT ![a].state = "rejected"]
    /\ UNCHANGED <<compVars, now, deviceRate, contexts, streams, sources,
                   processors, pendingStarts, startFailed, sent, heard,
                   dropped, sinceStop, run, otherVars>>

\* An element that plays reaches the end of its audio.  The code listens for
\* no event of the element.
audioEnded(a) ==
    /\ frameRanLast' = FALSE
    /\ a \in 1..Len(audios)
    /\ audios[a].state = "playing"
    /\ audios' = [audios EXCEPT ![a].state = "ended"]
    /\ UNCHANGED <<compVars, now, deviceRate, contexts, streams, sources,
                   processors, pendingStarts, startFailed, sent, heard,
                   dropped, sinceStop, run, otherVars>>

\* ------------------------------------------------------------- testVoice.jsx

\* testVoice.jsx 158: one sample of its mergeInt16, clamped to [-1, 1],
\* scaled by 0x7fff and truncated towards 0 on the store.
tvSampleToInt16(x) ==
    LET c == IF x > Scale THEN Scale ELSE IF x < 0 - Scale THEN 0 - Scale ELSE x
    IN  IF c < 0
        THEN ToInt16(0 - (((0 - c) * TV_SCALE) \div Scale))
        ELSE ToInt16((c * TV_SCALE) \div Scale)

\* testVoice.jsx 149-164, mergeInt16: the Float32 chunks, each converted to
\* Int16, laid end to end in order.
RECURSIVE tvMergeInt16(_)
tvMergeInt16(chunks) ==
    IF chunks = <<>> THEN <<>>
    ELSE [i \in 1..Len(Head(chunks)) |-> tvSampleToInt16(Head(chunks)[i])]
         \o tvMergeInt16(Tail(chunks))

\* The bytes of the buffer of an Int16Array (new Uint8Array(buffer)), the
\* low byte of each sample first.
RECURSIVE BytesOf(_)
BytesOf(int16s) ==
    IF int16s = <<>> THEN <<>>
    ELSE LET u == Head(int16s) % 65536
         IN  <<u % 256, u \div 256>> \o BytesOf(Tail(int16s))

B64Alphabet ==
    <<"A", "B", "C", "D", "E", "F", "G", "H", "I", "J", "K", "L", "M",
      "N", "O", "P", "Q", "R", "S", "T", "U", "V", "W", "X", "Y", "Z",
      "a", "b", "c", "d", "e", "f", "g", "h", "i", "j", "k", "l", "m",
      "n", "o", "p", "q", "r", "s", "t", "u", "v", "w", "x", "y", "z",
      "0", "1", "2", "3", "4", "5", "6", "7", "8", "9", "+", "/">>
B64(sextet) == B64Alphabet[sextet + 1]

\* btoa of the binary string of the bytes: 4 characters per 3 bytes, "="
\* padding the last group.
RECURSIVE btoa(_)
btoa(bytes) ==
    IF bytes = <<>> THEN <<>>
    ELSE IF Len(bytes) = 1
    THEN <<B64(bytes[1] \div 4), B64((bytes[1] % 4) * 16), "=", "=">>
    ELSE IF Len(bytes) = 2
    THEN <<B64(bytes[1] \div 4),
           B64((bytes[1] % 4) * 16 + bytes[2] \div 16),
           B64((bytes[2] % 16) * 4), "=">>
    ELSE <<B64(bytes[1] \div 4),
           B64((bytes[1] % 4) * 16 + bytes[2] \div 16),
           B64((bytes[2] % 16) * 4 + bytes[3] \div 64),
           B64(bytes[3] % 64)>>
         \o btoa(SubSeq(bytes, 4, Len(bytes)))

\* testVoice.jsx 166-175, arrayBufferToBase64 of the buffer of an Int16Array,
\* as the sequence of the characters of the string.
arrayBufferToBase64(int16s) == btoa(BytesOf(int16s))

\* testVoice.jsx 56-60: no guard; a new AudioContext replaces the one
\* audioContextRef held, and the call awaits getUserMedia.
tvStartRecording ==
    /\ frameRanLast' = FALSE
    /\ Len(tv.contexts) < MaxStarts
    /\ tv' = [tv EXCEPT !.contexts = Append(@, "running"),
                        !.audioContextRef = Len(tv.contexts) + 1,
                        !.pendingStarts = @ + 1,
                        !.stale = @ \cup {id \in tv.stopped :
                            \E i \in 1..Len(tv.bufferRef) :
                                tv.bufferRef[i].id = id}]
    /\ UNCHANGED <<compVars, envVars, sent, heard, dropped, sinceStop, run, enc>>

\* testVoice.jsx 60-103, getUserMedia having resolved: the source and the
\* processor are made on the context audioContextRef holds now and wired,
\* silenceStart is set to Date.now(), and recording is set.  On a closed
\* context createMediaStreamSource throws or makes a dead node: thrown is
\* either.
tvGetUserMediaResolved(thrown) ==
    /\ frameRanLast' = FALSE
    /\ tv.pendingStarts > 0
    /\ thrown => tv.contexts[tv.audioContextRef] = "closed"
    /\ IF thrown
       THEN tv' = [tv EXCEPT !.pendingStarts = @ - 1]
       ELSE tv' = [tv EXCEPT
                !.pendingStarts = @ - 1,
                !.sources = Append(@, [ctx |-> tv.audioContextRef,
                                       connected |-> TRUE]),
                !.sourceRef = Len(tv.sources) + 1,
                !.processors = Append(@, [ctx |-> tv.audioContextRef,
                                          connected |-> TRUE,
                                          silenceStart |-> now]),
                !.processorRef = Len(tv.processors) + 1,
                !.recording = TRUE]
    /\ UNCHANGED <<compVars, envVars, sent, heard, dropped, sinceStop, run, enc>>

\* testVoice.jsx 60, getUserMedia having rejected: nothing after it runs.
tvGetUserMediaRejected ==
    /\ frameRanLast' = FALSE
    /\ tv.pendingStarts > 0
    /\ tv' = [tv EXCEPT !.pendingStarts = @ - 1]
    /\ UNCHANGED <<compVars, envVars, sent, heard, dropped, sinceStop, run, enc>>

tvLive(p) ==
    /\ p \in 1..Len(tv.processors)
    /\ tv.processors[p].connected
    /\ tv.contexts[tv.processors[p].ctx] = "running"

\* testVoice.jsx 79-83: rms > silenceThreshold
tvIsVoiced(input) ==
    SumSeq([i \in 1..Len(input) |-> input[i] * input[i]])
        * silenceThresholdInv * silenceThresholdInv
    > Len(input) * Scale * Scale

\* testVoice.jsx 89-99: the buffered chunks go out as one "audio_chunk" and
\* the buffer is emptied.
tvEmit ==
    [tv EXCEPT
        !.sent = Append(@,
            [b64 |-> arrayBufferToBase64(tvMergeInt16(
                        [i \in 1..Len(tv.bufferRef) |-> tv.bufferRef[i].samples])),
             ids |-> [i \in 1..Len(tv.bufferRef) |-> tv.bufferRef[i].id]]),
        !.bufferRef = <<>>]

\* testVoice.jsx 77-101: the handler of processor p on the frame input
tvOnaudioprocess(p, input) ==
    /\ frameRanLast' = TRUE
    /\ tvLive(p)
    /\ IF tvIsVoiced(input)
       THEN /\ tv.heard < MaxChunks
            /\ tv' = [tv EXCEPT
                 !.processors[p].silenceStart = now,
                 !.bufferRef = Append(@, [id |-> tv.heard + 1,
                                          samples |-> input]),
                 !.heard = @ + 1]
       ELSE IF /\ now - tv.processors[p].silenceStart > silenceDuration
               /\ Len(tv.bufferRef) > 0
            THEN tv' = tvEmit
            ELSE UNCHANGED tv
    /\ UNCHANGED <<compVars, envVars, sent, heard, dropped, sinceStop, run, enc>>

\* testVoice.jsx 107-113: no guard; the processor and the source are
\* disconnected, the context closed and recording reset.  bufferRef is not
\* touched.
tvStopRecording ==
    /\ frameRanLast' = FALSE
    /\ tv' = [tv EXCEPT
         !.processors = IF tv.processorRef = 0 THEN @
                        ELSE [@ EXCEPT ![tv.processorRef].connected = FALSE],
         !.sources = IF tv.sourceRef = 0 THEN @
                     ELSE [@ EXCEPT ![tv.sourceRef].connected = FALSE],
         !.contexts = IF tv.audioContextRef = 0 THEN @
                      ELSE [@ EXCEPT ![tv.audioContextRef] = "closed"],
         !.recording = FALSE,
         !.stopped = @ \cup {tv.bufferRef[i].id : i \in 1..Len(tv.bufferRef)}]
    /\ UNCHANGED <<compVars, envVars, sent, heard, dropped, sinceStop, run, enc>>

\* ------------------------------------------------- floatToPCM16 on its own

\* The Float32 values floatToPCM16 is applied to: -2, just below -1, -1,
\* just above -1, -1/2, -1/128, 0, 1/128, 1/2, just below 1, 1, just above
\* 1 and 2, the Float32 nearest to -1/3 and to 1/3, and NaN.
EncodeSamples ==
    {Float32(n, 0 - ScaleBits) :
        n \in {0 - 2 * Scale, 0 - Scale - 1, 0 - Scale, 1 - Scale,
               0 - (Scale \div 2), 0 - 1, 0, 1, Scale \div 2, Scale - 1,
               Scale, Scale + 1, 2 * Scale}}
    \cup {Mean(0 - Scale, 3), Mean(Scale, 3), NaN}

EncodeInputs ==
    UNION {[1..n -> EncodeSamples] : n \in 1..MaxSamples}

InitEncode ==
    /\ InitComponents
    /\ enc \in {[input |-> s, output |-> <<>>, done |-> FALSE] :
                    s \in EncodeInputs}

\* floatToPCM16 is applied to the input.
Encode ==
    /\ frameRanLast' = FALSE
    /\ ~enc.done
    /\ enc' = [input |-> enc.input, output |-> floatToPCM16(enc.input),
               done |-> TRUE]
    /\ UNCHANGED <<compVars, envVars, sent, heard, dropped, sinceStop, run, tv>>

\* ------------------------------------------------------------ specification

\* The capture side: the recording session, the frames and the clock.
Next ==
    \/ startRecording
    \/ \E thrown \in BOOLEAN : getUserMediaResolved(thrown)
    \/ getUserMediaRejected
    \/ \E p \in 1..Len(processors), inBuf \in FrameInputs : onaudioprocess(p, inBuf)
    \/ \E d \in TickSteps : Tick(d)
    \/ stopRecording
    \/ render

Spec == Init /\ [][Next]_vars

\* The playback side next to the capture side: the "bot_reply" handler and
\* the Audio elements, with the recording session, its frames and the clock.
NextPlayback ==
    \/ \E msg \in BotReplies : botReply(msg)
    \/ \E a \in 1..Len(audios) : playResolved(a)
    \/ \E a \in 1..Len(audios) : playRejected(a)
    \/ \E a \in 1..Len(audios) : audioEnded(a)
    \/ startRecording
    \/ \E thrown \in BOOLEAN : getUserMediaResolved(thrown)
    \/ getUserMediaRejected
    \/ \E p \in 1..Len(processors), inBuf \in FrameInputs : onaudioprocess(p, inBuf)
    \/ \E d \in TickSteps : Tick(d)
    \/ stopRecording
    \/ render

SpecPlayback == Init /\ [][NextPlayback]_vars

\* The recording session of testVoice.jsx, its frames and the clock.
NextTestVoice ==
    \/ tvStartRecording
    \/ \E thrown \in BOOLEAN : tvGetUserMediaResolved(thrown)
    \/ tvGetUserMediaRejected
    \/ \E p \in 1..Len(tv.processors), input \in FrameInputs : tvOnaudioprocess(p, input)
    \/ \E d \in TickSteps : Tick(d)
    \/ tvStopRecording

SpecTestVoice == Init /\ [][NextTestVoice]_vars

\* floatToPCM16 applied to each of the inputs.
NextEncode == Encode

SpecEncode == InitEncode /\ [][NextEncode]_vars

\* --------------------------------------------------------------- properties

\* RMS > RMS_THRESHOLD, of the frame as captured
Voiced(inBuf) ==
    SumSeq([i \in 1..Len(inBuf) |-> inBuf[i] * inBuf[i]])
        * RMS_THRESHOLD_INV * RMS_THRESHOLD_INV > Len(inBuf) * Scale * Scale

\* the resampled and encoded chunk of each frame the device delivers, at
\* each sample rate a context may report
EncodedFrames ==
    {[rate  |-> r,
      frame |-> f,
      pcm   |-> floatToPCM16(downsampleFloat(f, r, TARGET_SAMPLE_RATE))] :
        r \in SampleRates, f \in FrameInputs}

\* the resampled and encoded chunk of a captured frame
Encoded(inBuf) ==
    (CHOOSE c \in EncodedFrames : c.rate = deviceRate /\ c.frame = inBuf).pcm

\* the chunks of the voiced frames numbered ids, one after the other
RECURSIVE Laid(_)
Laid(ids) ==
    IF ids = <<>> THEN <<>> ELSE Encoded(heard[Head(ids)]) \o Laid(Tail(ids))

RECURSIVE TotalLen(_)
TotalLen(ids) ==
    IF ids = <<>> THEN 0 ELSE Len(Encoded(heard[Head(ids)])) + TotalLen(Tail(ids))

IdSet(ids) == {ids[k] : k \in 1..Len(ids)}
SentIds == UNION {IdSet(sent[i].ids) : i \in 1..Len(sent)}
Idle == ~speakingRef

\* C1: every buffer emitted on "voice_chunk" holds at least one sample.
C1_NoEmptySegment == \A i \in 1..Len(sent) : Len(sent[i].data) > 0

\* A segment has been emitted by a frame.
C1_Witness == frameRanLast /\ Len(sent) >= 1 /\ Len(sent[1].data) >= 1

\* C2: a run of N >= 1 voiced frames gives exactly one segment, which holds
\* all N.  The run is the voiced frames captured since a segment was last
\* sent or a stop last discarded the buffer; it is empty in Idle, where the
\* buffer is empty too, and the buffer holds the chunk of each frame of the
\* run, in arrival order.  A voiced frame joins the run and sends nothing;
\* a silent frame that does not find the silence longer than SILENCE_MS
\* sends nothing and leaves the run and the buffer as they are, and one
\* that does sends one segment: the resampled and encoded chunks of all the
\* frames of the run laid end to end in arrival order, as many samples as
\* the chunks hold together, none of a silent frame; it leaves Idle with
\* the run and the buffer empty.  Nothing else sends.  So every emitted
\* segment is a run of consecutive voiced frames, each voiced frame in at
\* most one segment and the segments in arrival order, and no voiced frame
\* is lost: each is in a segment, in the buffer, or was discarded by a stop.
C2_SegmentIsItsVoicedFrames ==
    /\ [](/\ \A i \in 1..Len(sent) :
                LET ids == sent[i].ids
                IN  /\ Len(ids) >= 1
                    /\ \A k \in 1..(Len(ids) - 1) : ids[k + 1] = ids[k] + 1
                    /\ i > 1 => sent[i - 1].ids[Len(sent[i - 1].ids)] < ids[1]
                    /\ sent[i].data = Laid(ids)
                    /\ Len(sent[i].data) = TotalLen(ids)
          /\ \A k \in 1..Len(bufferRef) :
                bufferRef[k].id = Len(heard) - Len(bufferRef) + k
          /\ SentIds \cup dropped \cup IdSet(Ids(bufferRef)) = 1..Len(heard)
          /\ Ids(bufferRef) = run
          /\ \A k \in 1..Len(run) : bufferRef[k].pcm = Encoded(heard[run[k]])
          /\ Idle => run = <<>> /\ bufferRef = <<>>)
    /\ [][/\ \A p \in 1..Len(processors), inBuf \in FrameInputs :
               (/\ frameRanLast'
                /\ heard' # heard
                /\ heard'[Len(heard')] = inBuf
                /\ Voiced(inBuf)
                /\ onaudioprocess(p, inBuf))
               => /\ heard' = Append(heard, inBuf)
                  /\ run' = Append(run, Len(heard) + 1)
                  /\ speakingRef'
                  /\ sent' = sent
          /\ \A p \in 1..Len(processors), inBuf \in FrameInputs :
               (/\ speakingRef
                /\ frameRanLast'
                /\ heard' = heard
                /\ ~Voiced(inBuf)
                /\ onaudioprocess(p, inBuf))
               => IF silenceStartRef # 0 /\ now - silenceStartRef > SILENCE_MS
                  THEN /\ Len(run) >= 1
                       /\ sent' = Append(sent, [data |-> Laid(run),
                                                ids  |-> run])
                       /\ Len(sent'[Len(sent')].data) = TotalLen(run)
                       /\ run' = <<>>
                       /\ bufferRef' = <<>>
                       /\ ~speakingRef'
                  ELSE /\ sent' = sent
                       /\ run' = run
                       /\ bufferRef' = bufferRef
          /\ sent' # sent
             => /\ frameRanLast'
                /\ Len(run) >= 1
                /\ silenceStartRef # 0
                /\ now - silenceStartRef > SILENCE_MS
                /\ sent' = Append(sent, [data |-> Laid(run), ids |-> run])
                /\ run' = <<>>]_vars

\* A segment of two voiced frames that differ has been emitted.
C2_Witness ==
    \E i \in 1..Len(sent) :
        /\ Len(sent[i].ids) >= 2
        /\ heard[sent[i].ids[1]] # heard[sent[i].ids[2]]
        /\ Idle

\* What the finalization of the segment does.
Finalized ==
    /\ sent' = Append(sent, [data |-> Laid(Ids(bufferRef)), ids |-> Ids(bufferRef)])
    /\ bufferRef' = <<>>
    /\ silenceStartRef' = 0
    /\ ~speakingRef'

\* C3 as amended: in Speaking with the silence timer started, a silent frame
\* with elapsed > SILENCE_MS finalizes the segment (the merged buffer is
\* sent, buffer and timer are cleared, the state is Idle); with elapsed
\* equal to SILENCE_MS or less it changes nothing.
C3_HangoverStrictlyAfter ==
    [][\A p \in 1..Len(processors), inBuf \in FrameInputs :
          (/\ speakingRef
           /\ silenceStartRef # 0
           /\ frameRanLast'
           /\ ~Voiced(inBuf)
           /\ onaudioprocess(p, inBuf))
          => IF now - silenceStartRef > SILENCE_MS
             THEN Finalized
             ELSE UNCHANGED <<segVars, sent>>]_vars

\* C3 as stated: elapsed >= SILENCE_MS, equality included, finalizes.
C3_HangoverAtOrAfter ==
    [][\A p \in 1..Len(processors), inBuf \in FrameInputs :
          (/\ speakingRef
           /\ silenceStartRef # 0
           /\ now - silenceStartRef >= SILENCE_MS
           /\ ~Voiced(inBuf)
           /\ onaudioprocess(p, inBuf))
          => Finalized]_vars

\* A frame has finalized a segment more than SILENCE_MS after the silence
\* began.
C3_Witness ==
    /\ frameRanLast
    /\ Len(sent) >= 1
    /\ Idle
    /\ bufferRef = <<>>
    /\ silenceStartRef = 0
    /\ now - StartTime > SILENCE_MS

\* C4: a silent frame received while Idle changes nothing: Idle, the buffer
\* empty, the timer unset, nothing sent.
C4_SilenceWhileIdle ==
    [][\A p \in 1..Len(processors), inBuf \in FrameInputs :
          (Idle /\ frameRanLast' /\ ~Voiced(inBuf) /\ onaudioprocess(p, inBuf))
          => /\ UNCHANGED <<compVars, envVars, sent, heard, dropped>>
             /\ ~speakingRef'
             /\ bufferRef' = <<>>
             /\ silenceStartRef' = 0]_vars

\* A frame has just been handled, no voiced frame having ever arrived, and
\* time has passed.
C4_Witness ==
    /\ frameRanLast
    /\ heard = <<>>
    /\ Idle
    /\ now > StartTime

\* C5: no voiced frame of an emitted segment is in a later segment or in the
\* buffer: after a finalization the next voiced frame starts a segment that
\* carries nothing over.
C5_NothingCarriedOver ==
    \A i \in 1..Len(sent) :
        /\ IdSet(sent[i].ids) \cap IdSet(Ids(bufferRef)) = {}
        /\ \A j \in (i + 1)..Len(sent) :
               IdSet(sent[i].ids) \cap IdSet(sent[j].ids) = {}

\* After a finalization a voiced frame has started a new segment, which was
\* emitted in turn.
C5_Witness == Len(sent) >= 2 /\ Idle

\* C6: a stopRecording() that gets past its guard discards the accumulated
\* chunks and leaves the segmenter Idle with the timer unset; no chunk a stop
\* discarded is in the buffer or in a message, at the stop or after a later
\* startRecording().
C6_StopDiscards ==
    [][/\ (isRecording /\ stopRecording)
          => /\ bufferRef' = <<>>
             /\ ~speakingRef'
             /\ silenceStartRef' = 0
             /\ dropped' = dropped \cup IdSet(Ids(bufferRef))
             /\ sent' = sent
       /\ dropped' \cap UNION {IdSet(sent'[i].ids) : i \in 1..Len(sent')} = {}
       /\ dropped' \cap IdSet(Ids(bufferRef')) = {}]_vars

\* A stop has discarded chunks, and after a restart a segment of later
\* frames has been emitted.
C6_Witness ==
    \E d \in dropped : \E i \in 1..Len(sent) : sent[i].ids[1] > d

\* C7 as stated: once stopRecording() has run on a recording session, every
\* stream acquired so far has had its tracks stopped.
C7_StopReleasesEveryStream ==
    [][(isRecording /\ stopRecording)
       => \A s \in 1..Len(streams) : streams'[s] = "stopped"]_vars

\* C8 as stated: startRecording() on a session that is started (line 104
\* has run and no stop since) and stopRecording() on one that is stopped
\* change nothing: no context, stream or node is made or touched, the
\* segmenter and the buffer are as they were.
C8_RepeatedCallsAreNoOps ==
    [][/\ (recordingState /\ startRecording)
          => UNCHANGED <<compVars, envVars, sent, heard, dropped>>
       /\ (~recordingState /\ stopRecording)
          => UNCHANGED <<compVars, envVars, sent, heard, dropped>>]_vars

\* C9 as stated: on the Idle to Speaking transition every playback that is
\* Playing becomes Ended.
C9_BargeInEndsPlayback ==
    [][(~speakingRef /\ speakingRef')
       => \A a \in 1..Len(audios) :
              audios[a].state = "playing" => audios'[a].state = "ended"]_vars

\* C10 as stated: when a message with audio that requests interruption
\* arrives, every earlier playback that is Playing is Ended by its handler,
\* before the new one starts; and at most one playback is Playing.
C10_InterruptEndsPrior ==
    [][/\ \A msg \in BotReplies :
            (msg.bot_audio /\ msg.interrupt /\ botReply(msg))
            => \A a \in 1..Len(audios) :
                   audios[a].state = "playing" => audios'[a].state = "ended"
       /\ Cardinality({a \in 1..Len(audios') :
                           audios'[a].state = "playing"}) <= 1]_vars

\* C11: the handler of a "bot_reply" with audio appends the bot text and
\* makes one element, not Playing, before play() settles; when play()
\* rejects, that element becomes rejected and nothing else changes: no
\* playback becomes Playing, the transcript keeps the text, and the
\* segmenter, the buffer, the recording state and the capture pipeline are
\* as before; and a rejected playback is never started again, by any step.
C11_RejectedPlaybackIsNonFatal ==
    [][/\ \A msg \in BotReplies :
            (msg.bot_audio /\ botReply(msg))
            => /\ messages' = Append(messages, [from |-> "bot",
                                                text |-> msg.bot_text])
               /\ audios' = Append(audios, [state |-> "requested"])
       /\ \A a \in 1..Len(audios) :
            playRejected(a)
            => /\ audios' = [audios EXCEPT ![a].state = "rejected"]
               /\ Len(messages) >= a
               /\ UNCHANGED <<compVars, contexts, streams, sources,
                              processors, pendingStarts, startFailed, now,
                              sent, heard, dropped>>
       /\ \A a \in 1..Len(audios) :
            audios[a].state = "rejected"
            => /\ a <= Len(audios')
               /\ audios'[a].state = "rejected"]_vars

\* A play() has rejected during a speech segment of a running session, the
\* hangover timer running.
C11_Witness ==
    /\ Len(audios) >= 1
    /\ audios[Len(audios)].state = "rejected"
    /\ messages # <<>>
    /\ isRecording
    /\ speakingRef
    /\ bufferRef # <<>>
    /\ silenceStartRef # 0

\* C12: when getUserMedia rejects, the promise of startRecording rejects,
\* no new acquisition is pending in its place, and the component, the
\* browser objects and the transport are as before; and as long as no
\* processor has been installed the session is stopped, the segmenter Idle
\* and empty, and no frame has been captured or sent.
C12_DeniedCaptureLeavesSessionStopped ==
    [][/\ getUserMediaRejected
          => /\ startFailed'
             /\ pendingStarts' = pendingStarts - 1
             /\ UNCHANGED <<compVars, contexts, streams, sources, processors,
                            sent, heard, dropped>>
       /\ processors' = <<>>
          => /\ ~isRecording'
             /\ ~recordingState'
             /\ processorRef' = 0
             /\ ~speakingRef'
             /\ bufferRef' = <<>>
             /\ silenceStartRef' = 0
             /\ sent' = <<>>
             /\ heard' = <<>>]_vars

\* The only acquisition has been denied.
C12_Witness ==
    /\ startFailed
    /\ contexts # <<>>
    /\ streams = <<>>
    /\ pendingStarts = 0
    /\ processors = <<>>
    /\ ~isRecording

\* C13: floatToPCM16 gives one Int16 per input sample, each within
\* -32768 .. 32767; 1.0 and everything above it give 32767, -1.0 and
\* everything below it give -32768, and 0.0 gives 0.
C13_EncodedRange ==
    enc.done
    => /\ Len(enc.output) = Len(enc.input)
       /\ \A i \in 1..Len(enc.input) :
            LET f == enc.input[i]
                out == enc.output[i]
            IN  /\ out \in (0 - 32768)..32767
                /\ (~f.nan /\ f.e = 0 - ScaleBits /\ f.m >= Scale)
                   => out = 32767
                /\ (~f.nan /\ f.e = 0 - ScaleBits /\ f.m <= 0 - Scale)
                   => out = 0 - 32768
                /\ (~f.nan /\ f.m = 0) => out = 0

\* An input holding 1.0 and a value outside [-1, 1] has been encoded.
C13_Witness ==
    /\ enc.done
    /\ \E i, j \in 1..Len(enc.input) :
          /\ enc.input[i] = Float32(Scale, 0 - ScaleBits)
          /\ enc.input[j] = Float32(0 - 2 * Scale, 0 - ScaleBits)

\* C14: a step emits if and only if it is a silent frame that finds the
\* hangover expired in Speaking; it then emits exactly one message, the
\* whole non-empty buffer, and leaves the buffer empty; and no chunk is in
\* two messages.
C14_OneSendPerFinalization ==
    [][LET expiry ==
               /\ speakingRef
               /\ silenceStartRef # 0
               /\ now - silenceStartRef > SILENCE_MS
               /\ frameRanLast'
               /\ \E p \in 1..Len(processors), inBuf \in FrameInputs :
                      ~Voiced(inBuf) /\ onaudioprocess(p, inBuf)
       IN  /\ IF expiry
              THEN /\ bufferRef # <<>>
                   /\ sent' = Append(sent, [data |-> Laid(Ids(bufferRef)),
                                            ids  |-> Ids(bufferRef)])
                   /\ bufferRef' = <<>>
              ELSE sent' = sent
           /\ \A i, j \in 1..Len(sent') :
                 i # j => IdSet(sent'[i].ids) \cap IdSet(sent'[j].ids) = {}]_vars

\* Two utterances have been finalized and sent.
C14_Witness ==
    /\ frameRanLast
    /\ Len(sent) = 2
    /\ bufferRef = <<>>
    /\ sent[1].ids # sent[2].ids

\* C15: a voiced frame in Speaking appends its chunk, leaves the timer
\* not started and sends nothing; a step that sends finds the timer running
\* for more than SILENCE_MS; and the timer is started only from not started,
\* in Speaking, by a frame that captures nothing, at the present time.  A running timer
\* so measures one run of silent frames with no voiced frame in it.
C15_VoicedFrameRestartsSilence ==
    [][/\ \A p \in 1..Len(processors), inBuf \in FrameInputs :
            (/\ speakingRef
             /\ frameRanLast'
             /\ heard' # heard
             /\ Voiced(inBuf)
             /\ onaudioprocess(p, inBuf))
            => /\ bufferRef' = Append(bufferRef, [id  |-> Len(heard) + 1,
                                                  pcm |-> Encoded(inBuf)])
               /\ silenceStartRef' = 0
               /\ speakingRef'
               /\ sent' = sent
       /\ sent' # sent
          => /\ silenceStartRef # 0
             /\ now - silenceStartRef > SILENCE_MS
       /\ (silenceStartRef' # 0 /\ silenceStartRef' # silenceStartRef)
          => /\ silenceStartRef = 0
             /\ silenceStartRef' = now
             /\ speakingRef
             /\ frameRanLast'
             /\ UNCHANGED <<bufferRef, heard, sent>>]_vars

\* A second voiced frame has come in Speaking, more than SILENCE_MS after
\* the session began, and nothing has been sent.
C15_Witness ==
    /\ frameRanLast
    /\ speakingRef
    /\ Len(bufferRef) = 2
    /\ silenceStartRef = 0
    /\ now - StartTime > SILENCE_MS
    /\ sent = <<>>

\* C16 as stated: a silent frame in Speaking leaves the buffer as it is, and
\* with the timer running and the hangover not expired changes nothing.
C16_SilentFrameKeepsBuffer ==
    [][\A p \in 1..Len(processors), inBuf \in FrameInputs :
          (speakingRef /\ ~Voiced(inBuf) /\ onaudioprocess(p, inBuf))
          => /\ bufferRef' = bufferRef
             /\ (silenceStartRef # 0 /\ now - silenceStartRef <= SILENCE_MS)
                => UNCHANGED <<compVars, envVars, sent, heard, dropped>>]_vars

\* C16, amended: a silent frame in Speaking appends nothing: it leaves the
\* buffer as it is, but for the frame that finds the hangover expired, which
\* sends the buffer and empties it; with the timer running and the hangover
\* not expired it changes nothing.
C16_SilentFrameNeverAppends ==
    [][(/\ speakingRef
        /\ frameRanLast'
        /\ heard' = heard
        /\ \E p \in 1..Len(processors), inBuf \in FrameInputs :
               ~Voiced(inBuf) /\ onaudioprocess(p, inBuf))
          => /\ IF silenceStartRef # 0 /\ now - silenceStartRef > SILENCE_MS
                THEN /\ bufferRef' = <<>>
                     /\ sent' = Append(sent, [data |-> Laid(Ids(bufferRef)),
                                              ids  |-> Ids(bufferRef)])
                ELSE /\ bufferRef' = bufferRef
                     /\ sent' = sent
             /\ heard' = heard
             /\ (silenceStartRef # 0 /\ now - silenceStartRef <= SILENCE_MS)
                => UNCHANGED <<compVars, envVars, sent, heard, dropped>>]_vars

\* In Speaking a frame has just been handled with the timer running for
\* exactly SILENCE_MS.
C16_Witness ==
    /\ frameRanLast
    /\ speakingRef
    /\ bufferRef # <<>>
    /\ silenceStartRef # 0
    /\ now - silenceStartRef = SILENCE_MS

\* C17 as stated: in testVoice.jsx no "audio_chunk" holds a chunk that was
\* captured before a stopRecording() and was still in the buffer when
\* startRecording() was called after it.
C17_StaleChunksNeverSent ==
    \A i \in 1..Len(tv.sent) : IdSet(tv.sent[i].ids) \cap tv.stale = {}

\* C18: the segmenter is Speaking exactly when the buffer holds a chunk, and
\* the silence timer is set only in Speaking.
C18_SpeakingIffBuffered ==
    /\ speakingRef <=> bufferRef # <<>>
    /\ silenceStartRef # 0 => speakingRef

\* After a stop and a new start, a voiced frame and then a silent one have
\* come: Speaking, with the timer running.
C18_Witness ==
    /\ sinceStop = "voiced"
    /\ speakingRef
    /\ bufferRef # <<>>
    /\ silenceStartRef # 0

\* C19 as stated: at most one AudioContext is open, at most one microphone
\* stream is live and at most one processor feeds the buffer.
C19_AtMostOnePipeline ==
    /\ Cardinality({c \in 1..Len(contexts) : contexts[c] = "running"}) <= 1
    /\ Cardinality({m \in 1..Len(streams) : streams[m] = "live"}) <= 1
    /\ Cardinality({p \in 1..Len(processors) : Live(p)}) <= 1

\* C20 as stated: from a stopRecording() that stopped a session until
\* startRecording() has been called again and a voiced frame has come after
\* it, nothing is sent.
C20_SilentAfterStop ==
    [][sent' # sent => sinceStop \in {"never", "voiced"}]_vars

=============================================================================
